---- MODULE Spec2Model ----
(***************************************************************************)
(* A model of matcher.py: the Matcher class, which loads a knowledge base  *)
(* of question/answer entries from a JSON file, caches the normalized      *)
(* questions, and answers a query with the entry whose normalized question *)
(* has the highest difflib.SequenceMatcher ratio against the normalized    *)
(* query.                                                                  *)
(*                                                                         *)
(* Python values are modelled as tagged records [tag, val] so that a list, *)
(* a dict, a str and a number are distinct values that can be compared.    *)
(* A str is a sequence of one-character strings.  A float score 2.0*M/T is *)
(* the exact rational <<2*M, T>>: for the short strings of the model and   *)
(* the cutoffs used, two such rationals that differ are far further apart  *)
(* than a rounding error, so comparing the rationals is comparing the      *)
(* floats.                                                                 *)
(***************************************************************************)
EXTENDS Integers, Sequences, FiniteSets, TLC

\* ------------------------------------------------------------------ bounds

\* Longest str given to _preprocess in SpecNorm.
MaxLen == 3
\* Most entries in a kb.json document.
MaxKB == 2

\* ------------------------------------------------------------ Python values

Str(s) == [tag |-> "str", val |-> s]
\* A JSON number other than 0 (truthy, and not a str), e.g. 5.
Num == [tag |-> "num", val |-> <<>>]
\* A JSON object: val is the dict, a function from its keys to their values.
Obj(d) == [tag |-> "object", val |-> d]
\* A JSON array: val is the sequence of its elements.
List(xs) == [tag |-> "list", val |-> xs]
\* The Python str "".
EmptyStr == Str(<<>>)

\* dict.get(key, default)
dict_get(d, key, default) == IF key \in DOMAIN d THEN d[key] ELSE default

\* bool(v) for the values of the model: only the empty str is falsy.
Truthy(v) == ~(v.tag = "str" /\ v.val = <<>>)

\* ---------------------------------------------------------------- characters

AsciiLower ==
    {"a", "b", "c", "d", "e", "f", "g", "h", "i", "j", "k", "l", "m",
     "n", "o", "p", "q", "r", "s", "t", "u", "v", "w", "x", "y", "z"}
AsciiDigit == {"0", "1", "2", "3", "4", "5", "6", "7", "8", "9"}
\* The characters of the model that str.strip() strips and \s matches.
Whitespace == {" ", "\t"}
\* str.lower() on the upper-case letters of the model; every other character of
\* the model is its own lower case.
LowerOf == ("A" :> "a") @@ ("B" :> "b")

\* The characters a str of SpecNorm is made of: lower case, upper case, digit,
\* two kinds of whitespace, punctuation.
Chars == {"a", "b", "A", "1", " ", "\t", "!"}

\* All sequences of at most n elements of cs.
SeqsUpTo(cs, n) == UNION {[1..k -> cs] : k \in 0..n}

\* ------------------------------------------------------------- _preprocess

\* str.lower()
str_lower(s) ==
    [i \in 1..Len(s) |-> IF s[i] \in DOMAIN LowerOf THEN LowerOf[s[i]] ELSE s[i]]

\* str.strip(): drops the leading and the trailing whitespace.
str_strip(s) ==
    LET inked == {i \in 1..Len(s) : s[i] \notin Whitespace}
    IN  IF inked = {} THEN <<>>
        ELSE LET lo == CHOOSE i \in inked : \A j \in inked : i <= j
                 hi == CHOOSE i \in inked : \A j \in inked : j <= i
             IN  SubSeq(s, lo, hi)

\* re.sub(r"[^a-z0-9\s]", "", s): drops every character that is not a
\* lower-case ASCII letter, an ASCII digit or whitespace.
KeptChar(c) == c \in AsciiLower \cup AsciiDigit \cup Whitespace
sub_punctuation(s) == SelectSeq(s, KeptChar)

\* re.sub(r"\s+", " ", s): every maximal run of whitespace becomes one space.
RECURSIVE sub_whitespace(_)
sub_whitespace(s) ==
    IF s = <<>> THEN <<>>
    ELSE IF s[1] \notin Whitespace THEN <<s[1]>> \o sub_whitespace(Tail(s))
    ELSE IF Len(s) >= 2 /\ s[2] \in Whitespace THEN sub_whitespace(Tail(s))
    ELSE <<" ">> \o sub_whitespace(Tail(s))

\* Whether _preprocess(v) raises: (v or "") is v for a truthy v, and a number
\* has no .lower().
preprocess_raises(v) == Truthy(v) /\ v.tag # "str"

\* _preprocess(v) for a v it does not raise on: the normalized str.
preprocess(v) ==
    LET s0 == IF Truthy(v) THEN v.val ELSE <<>>
        s1 == str_strip(str_lower(s0))
        s2 == sub_punctuation(s1)
    IN  sub_whitespace(s2)

\* ------------------------------------------- difflib.SequenceMatcher.ratio()

\* Indices are Python's: a[i] of the source is a[i + 1] here, and a block
\* a[alo:ahi] is half open.  SequenceMatcher(None, a, b) has no junk, and its
\* automatic junk heuristic only applies to a b of 200 characters or more.

\* The length of the longest common prefix of a[i:ahi] and b[j:bhi].
RECURSIVE common_prefix(_, _, _, _, _, _)
common_prefix(a, b, i, j, ahi, bhi) ==
    IF i < ahi /\ j < bhi /\ a[i + 1] = b[j + 1]
    THEN 1 + common_prefix(a, b, i + 1, j + 1, ahi, bhi)
    ELSE 0

\* find_longest_match(alo, ahi, blo, bhi): the longest block common to
\* a[alo:ahi] and b[blo:bhi]; of the longest blocks the one that starts
\* earliest in a, and of those the one that starts earliest in b; (alo, blo, 0)
\* when nothing matches.
find_longest_match(a, b, alo, ahi, blo, bhi) ==
    LET starts == (alo..(ahi - 1)) \X (blo..(bhi - 1))
        size(p) == common_prefix(a, b, p[1], p[2], ahi, bhi)
        found == {p \in starts : size(p) > 0}
        Better(p, r) == \/ size(p) > size(r)
                        \/ size(p) = size(r) /\ p[1] < r[1]
                        \/ size(p) = size(r) /\ p[1] = r[1] /\ p[2] <= r[2]
    IN  IF found = {} THEN [i |-> alo, j |-> blo, size |-> 0]
        ELSE LET p == CHOOSE p \in found : \A r \in found : Better(p, r)
             IN  [i |-> p[1], j |-> p[2], size |-> size(p)]

\* The number of characters in get_matching_blocks(): the longest match, then
\* the same to its left and to its right.
RECURSIVE matching_chars(_, _, _, _, _, _)
matching_chars(a, b, alo, ahi, blo, bhi) ==
    LET m == find_longest_match(a, b, alo, ahi, blo, bhi)
    IN  IF m.size = 0 THEN 0
        ELSE m.size
             + (IF alo < m.i /\ blo < m.j
                THEN matching_chars(a, b, alo, m.i, blo, m.j) ELSE 0)
             + (IF m.i + m.size < ahi /\ m.j + m.size < bhi
                THEN matching_chars(a, b, m.i + m.size, ahi, m.j + m.size, bhi)
                ELSE 0)

\* ratio(): 2.0 * matches / length, and 1.0 when both strs are empty.
ratio(a, b) ==
    LET length == Len(a) + Len(b)
    IN  IF length = 0 THEN <<1, 1>>
        ELSE <<2 * matching_chars(a, b, 0, Len(a), 0, Len(b)), length>>

\* Comparisons of two floats given as rationals with positive denominators.
Gt(x, y) == x[1] * y[2] > y[1] * x[2]
Geq(x, y) == x[1] * y[2] >= y[1] * x[2]
Eq(x, y) == x[1] * y[2] = y[1] * x[2]

\* ------------------------------------------------------------------ inputs

\* The default cutoff of Matcher.__init__, 0.55, as a rational.
DefaultCutoff == <<55, 100>>
\* The cutoffs a Matcher is constructed with.
Cutoffs == {<<0, 1>>, DefaultCutoff, <<1, 1>>}

\* The entries of kb.json documents.  The first two questions normalize to the
\* same str; the third entry has neither key.
Entry1 == Obj(("question" :> Str(<<"a">>)) @@ ("answer" :> Str(<<"X">>)))
Entry2 == Obj(("question" :> Str(<<"A", "!">>)) @@ ("answer" :> Str(<<"Y">>)))
Entry3 == Obj(<<>>)

\* The elements of the array in kb.json: objects, and a number.  The questions
\* of the objects are strs, so of the failures of _load_kb only those of its
\* first comprehension (and of open and json.load) occur.
Items == {Entry1, Entry2, Entry3, Num}

\* The documents json.load() returns: an array of at most MaxKB elements, or a
\* number.
Docs == {List(xs) : xs \in SeqsUpTo(Items, MaxKB)} \cup {Num}

\* The query strs given to find_best: equal to a question once normalized,
\* sharing no character with any, empty once normalized, close to a question.
Queries == {<<"a">>, <<"b">>, <<"!">>, <<"A", "b">>}

\* ------------------------------------------------------------------- state

VARIABLES
    constructed,     \* whether Matcher() has returned an instance
    cutoff,          \* self.cutoff
    kb,              \* self.kb
    questions,       \* self.questions
    questions_proc,  \* self._questions_proc
    op,              \* the method called last
    err,             \* the exception it raised, or "none"
    query,           \* its query argument (the empty str when it takes none)
    ret,             \* the tuple it returned (NoReturn when it returned none)
    s,               \* SpecNorm: the str given to _preprocess
    once,            \* SpecNorm: _preprocess(s)
    twice,           \* SpecNorm: _preprocess(_preprocess(s))
    pc               \* SpecNorm: how many times _preprocess has been applied

matcher == <<constructed, cutoff, kb, questions, questions_proc>>
call == <<op, err, query, ret>>
norm == <<s, once, twice, pc>>
vars == <<matcher, call, norm>>

\* What ret holds when the call returned nothing.
NoReturn == [answer |-> EmptyStr, matched_question |-> EmptyStr, score |-> <<0, 1>>]

\* ----------------------------------------------------------------- _load_kb

\* The attributes after _load_kb() read doc, and the exception it raised.
\* self.kb is assigned as soon as json.load returns; the comprehension over
\* self.kb raises on a document that is not iterable and on an element without
\* .get, before self.questions is assigned; the comprehension over
\* self.questions raises on a question _preprocess raises on, before
\* self._questions_proc is assigned.
load_kb(doc) ==
    LET old == [kb |-> kb, questions |-> questions,
                questions_proc |-> questions_proc, err |-> "none"]
    IN  IF doc.tag # "list"
        THEN [old EXCEPT !.kb = doc, !.err = "TypeError"]
        ELSE IF \E i \in 1..Len(doc.val) : doc.val[i].tag # "object"
        THEN [old EXCEPT !.kb = doc, !.err = "AttributeError"]
        ELSE LET qs == [i \in 1..Len(doc.val) |->
                          dict_get(doc.val[i].val, "question", EmptyStr)]
             IN  IF \E i \in 1..Len(qs) : preprocess_raises(qs[i])
                 THEN [old EXCEPT !.kb = doc, !.questions = qs,
                                  !.err = "AttributeError"]
                 ELSE [kb |-> doc, questions |-> qs,
                       questions_proc |-> [i \in 1..Len(qs) |-> preprocess(qs[i])],
                       err |-> "none"]

\* ---------------------------------------------------------------- find_best

\* best_idx and best_score after the loop has seen the first n cached
\* questions: a score replaces the best only when it is greater.
RECURSIVE best_after(_, _)
best_after(q, n) ==
    IF n = 0 THEN [best_idx |-> -1, best_score |-> <<0, 1>>]
    ELSE LET prev == best_after(q, n - 1)
             score == ratio(q, questions_proc[n])
         IN  IF Gt(score, prev.best_score)
             THEN [best_idx |-> n - 1, best_score |-> score]
             ELSE prev

\* The same test without best_idx != -1.
confident_without_idx(best_idx, best_score) == Geq(best_score, cutoff)

\* The test of the confident branch.
confident(best_idx, best_score) == best_idx # -1 /\ Geq(best_score, cutoff)

\* Python's xs[i]: an index from -len(xs) to len(xs) - 1 is in range, and a
\* negative one counts from the end.
in_range(xs, i) == -Len(xs) <= i /\ i < Len(xs)
item(xs, i) == xs[(IF i < 0 THEN i + Len(xs) ELSE i) + 1]

\* What evaluating self.kb[i]["answer"] raises, or "none".
answer_raises(i) ==
    IF kb.tag # "list" THEN "TypeError"
    ELSE IF ~in_range(kb.val, i) THEN "IndexError"
    ELSE IF item(kb.val, i).tag # "object" THEN "TypeError"
    ELSE IF "answer" \notin DOMAIN item(kb.val, i).val THEN "KeyError"
    ELSE "none"

\* What evaluating self.questions[i] raises, or "none".
question_raises(i) == IF in_range(questions, i) THEN "none" ELSE "IndexError"

Raised(e) == [NoReturn EXCEPT !.answer = EmptyStr] @@ [err |-> e]
Returned(a, m, sc) ==
    [answer |-> a, matched_question |-> m, score |-> sc, err |-> "none"]

\* find_best(query): the tuple returned, or the exception raised.
find_best(qry) ==
    LET q == preprocess(Str(qry))
        best == best_after(q, Len(questions_proc))
        best_idx == best.best_idx
        best_score == best.best_score
    IN  IF confident(best_idx, best_score)
        THEN IF answer_raises(best_idx) # "none"
             THEN Raised(answer_raises(best_idx))
             ELSE IF question_raises(best_idx) # "none"
             THEN Raised(question_raises(best_idx))
             ELSE Returned(item(kb.val, best_idx).val["answer"],
                           item(questions, best_idx), best_score)
        ELSE IF best_idx = -1
             THEN Returned(EmptyStr, EmptyStr, best_score)
             ELSE IF question_raises(best_idx) # "none"
             THEN Raised(question_raises(best_idx))
             ELSE Returned(EmptyStr, item(questions, best_idx), best_score)

\* ------------------------------------------------------------------ actions

\* Matcher(kb_path, cutoff) when open() or json.load() raises: no instance.
ConstructUnreadable ==
    /\ ~constructed
    /\ op' = "__init__"
    /\ err' = "OSError"
    /\ query' = <<>>
    /\ ret' = NoReturn
    /\ UNCHANGED <<matcher, norm>>

\* Matcher(kb_path, cutoff) with kb.json holding doc: an instance when
\* _load_kb() returns, none when it raises.
Construct ==
    /\ ~constructed
    /\ \E c \in Cutoffs, doc \in Docs : \E new \in {load_kb(doc)} :
             /\ op' = "__init__"
             /\ err' = new.err
             /\ IF new.err = "none"
                THEN /\ constructed' = TRUE
                     /\ cutoff' = c
                     /\ kb' = new.kb
                     /\ questions' = new.questions
                     /\ questions_proc' = new.questions_proc
                ELSE UNCHANGED matcher
    /\ query' = <<>>
    /\ ret' = NoReturn
    /\ UNCHANGED norm

\* reload_kb() when open() or json.load() raises: nothing is assigned.
ReloadUnreadable ==
    /\ constructed
    /\ op' = "reload_kb"
    /\ err' = "OSError"
    /\ query' = <<>>
    /\ ret' = NoReturn
    /\ UNCHANGED <<matcher, norm>>

\* reload_kb() with kb.json holding doc.
Reload ==
    /\ constructed
    /\ \E doc \in Docs : \E new \in {load_kb(doc)} :
             /\ op' = "reload_kb"
             /\ err' = new.err
             /\ kb' = new.kb
             /\ questions' = new.questions
             /\ questions_proc' = new.questions_proc
    /\ query' = <<>>
    /\ ret' = NoReturn
    /\ UNCHANGED <<constructed, cutoff, norm>>

\* find_best(query)
FindBest ==
    /\ constructed
    /\ \E qry \in Queries : \E r \in {find_best(qry)} :
             /\ op' = "find_best"
             /\ query' = qry
             /\ err' = r.err
             /\ ret' = [answer |-> r.answer,
                        matched_question |-> r.matched_question,
                        score |-> r.score]
    /\ UNCHANGED <<matcher, norm>>

\* get_answer_with_score(query): the tuple of find_best, unpacked and packed.
GetAnswerWithScore ==
    /\ constructed
    /\ \E qry \in Queries : \E r \in {find_best(qry)} :
             /\ op' = "get_answer_with_score"
             /\ query' = qry
             /\ err' = r.err
             /\ ret' = [answer |-> r.answer,
                        matched_question |-> r.matched_question,
                        score |-> r.score]
    /\ UNCHANGED <<matcher, norm>>

NormIdle == s = <<>> /\ once = <<>> /\ twice = <<>> /\ pc = 0

Init ==
    /\ constructed = FALSE
    /\ cutoff = DefaultCutoff
    /\ kb = List(<<>>)
    /\ questions = <<>>
    /\ questions_proc = <<>>
    /\ op = "none"
    /\ err = "none"
    /\ query = <<>>
    /\ ret = NoReturn
    /\ NormIdle

Next ==
    \/ ConstructUnreadable
    \/ Construct
    \/ ReloadUnreadable
    \/ Reload
    \/ FindBest
    \/ GetAnswerWithScore

Spec == Init /\ [][Next]_vars

\* ----------------------------------------------- SpecNorm: _preprocess alone

\* _preprocess(s)
Normalize ==
    /\ pc = 0
    /\ once' = preprocess(Str(s))
    /\ pc' = 1
    /\ UNCHANGED <<matcher, call, s, twice>>

\* _preprocess of the result
NormalizeAgain ==
    /\ pc = 1
    /\ twice' = preprocess(Str(once))
    /\ pc' = 2
    /\ UNCHANGED <<matcher, call, s, once>>

InitNorm ==
    /\ constructed = FALSE
    /\ cutoff = DefaultCutoff
    /\ kb = List(<<>>)
    /\ questions = <<>>
    /\ questions_proc = <<>>
    /\ op = "none"
    /\ err = "none"
    /\ query = <<>>
    /\ ret = NoReturn
    /\ s \in SeqsUpTo(Chars, MaxLen)
    /\ once = <<>>
    /\ twice = <<>>
    /\ pc = 0

NextNorm == Normalize \/ NormalizeAgain

SpecNorm == InitNorm /\ [][NextNorm]_vars

\* ------------------------------------------------- what the claims speak of

\* The last call was a query.
IsQuery == op \in {"find_best", "get_answer_with_score"}

\* doc is an array of objects.
SeqOfObjects(doc) ==
    doc.tag = "list" /\ \A i \in 1..Len(doc.val) : doc.val[i].tag = "object"

\* The question and the answer of the i-th entry of self.kb (i from 1), a
\* missing field being the empty str.
EntryQuestion(i) == dict_get(kb.val[i].val, "question", EmptyStr)
EntryAnswer(i) == dict_get(kb.val[i].val, "answer", EmptyStr)

\* The cache is parallel to the knowledge base.
Parallel ==
    /\ SeqOfObjects(kb)
    /\ Len(questions) = Len(kb.val)
    /\ Len(questions_proc) = Len(kb.val)
    /\ \A i \in 1..Len(kb.val) : questions_proc[i] = preprocess(EntryQuestion(i))

\* The attributes are those a load of the document in self.kb leaves.
Loaded ==
    /\ Parallel
    /\ \A i \in 1..Len(kb.val) : questions[i] = EntryQuestion(i)

\* The similarity of the last query and the i-th entry's question.
EntryScore(i) == ratio(preprocess(Str(query)), preprocess(EntryQuestion(i)))
\* The i-th entry has the maximum score.
IsMax(i) == \A j \in 1..Len(kb.val) : Geq(EntryScore(i), EntryScore(j))
\* The lowest index among the entries with the maximum score.
FirstMax ==
    CHOOSE i \in 1..Len(kb.val) : IsMax(i) /\ \A j \in 1..(i - 1) : ~IsMax(j)
\* best_idx and best_score of the loop for the last query.
Best == best_after(preprocess(Str(query)), Len(questions_proc))

\* ------------------------------------------------------------------ claims

\* C1: an entry without "question" or "answer" is treated as if the field were
\* the empty str: loading an array of objects raises nothing, a query on a
\* loaded knowledge base raises nothing, and when the best entry, with a score
\* of at least the cutoff, has no "answer", the answer returned is "".
C1_MissingFieldsDefault ==
    /\ (constructed /\ op = "reload_kb" /\ err # "OSError" /\ SeqOfObjects(kb))
         => err = "none"
    /\ (constructed /\ IsQuery /\ Loaded)
         => /\ err = "none"
            /\ (/\ Len(kb.val) > 0
                /\ Geq(EntryScore(FirstMax), cutoff)
                /\ "answer" \notin DOMAIN kb.val[FirstMax].val)
                 => ret.answer = EmptyStr

\* C2: a reload_kb() that raises leaves kb, questions and _questions_proc with
\* the values they had before the call.
C2_FailedReloadKeepsState ==
    [][(op' = "reload_kb" /\ err' # "none")
         => (kb' = kb /\ questions' = questions
             /\ questions_proc' = questions_proc)]_vars

\* C3: in every state after a successful construction, whatever reloads and
\* queries followed, _questions_proc, questions and kb have the same length and
\* _questions_proc[i] is the normalized question of kb[i].
C3_CacheParallel == constructed => Parallel

\* C4: _preprocess is idempotent: applied to its own result it returns that
\* result.
C4_PreprocessIdempotent == pc = 2 => twice = once

\* C5: a query returns data of the document read last only (after a reload,
\* of the new source): either nothing was matched, or the matched question and
\* the answer are those of one entry of that document and the score is the
\* similarity against that entry's normalized question.
C5_ReloadConsistency ==
    (constructed /\ IsQuery /\ err = "none")
      => \/ /\ ret.answer = EmptyStr
            /\ ret.matched_question = EmptyStr
            /\ Eq(ret.score, <<0, 1>>)
         \/ /\ kb.tag = "list"
            /\ \E i \in 1..Len(kb.val) :
                 /\ kb.val[i].tag = "object"
                 /\ ret.matched_question = EntryQuestion(i)
                 /\ \/ ret.answer = EmptyStr
                    \/ /\ "answer" \in DOMAIN kb.val[i].val
                       /\ ret.answer = kb.val[i].val["answer"]
                 /\ Eq(ret.score, EntryScore(i))

\* C6: when two or more entries have the maximum score, a query that returns
\* returns the one of them with the lowest index: its question text, and its
\* answer when the score is at least the cutoff.
C6_TieBreakLowestIndex ==
    (/\ constructed /\ IsQuery /\ err = "none" /\ Loaded
     /\ \E i, j \in 1..Len(kb.val) : i # j /\ IsMax(i) /\ IsMax(j))
      => /\ ret.matched_question = questions[FirstMax]
         /\ Geq(EntryScore(FirstMax), cutoff) => ret.answer = EntryAnswer(FirstMax)

\* C7: on a knowledge base that is not empty, a query whose best score is below
\* the cutoff returns the empty answer, the question text of a closest entry
\* and that entry's score (so the matched question is "" only for an entry
\* whose own text is "").
C7_NoConfidentMatch ==
    (/\ constructed /\ IsQuery /\ Loaded
     /\ Len(kb.val) > 0
     /\ ~Geq(EntryScore(FirstMax), cutoff))
      => /\ err = "none"
         /\ ret.answer = EmptyStr
         /\ \E i \in 1..Len(kb.val) :
              /\ IsMax(i)
              /\ ret.matched_question = questions[i]
              /\ Eq(ret.score, EntryScore(i))

\* C8: when the loop found a best entry, the query returns that entry's answer
\* if the best score is at least the cutoff (a score equal to the cutoff
\* included), and the empty answer if it is below.
C8_CutoffInclusive ==
    (constructed /\ IsQuery /\ Loaded /\ Best.best_idx # -1)
      => /\ err = "none"
         /\ IF Geq(Best.best_score, cutoff)
            THEN ret.answer = EntryAnswer(Best.best_idx + 1)
            ELSE ret.answer = EmptyStr

\* C9: when the normalized query equals the normalized question of an entry
\* (both may be empty), the query returns the score 1.0 and, for a cutoff in
\* [0, 1], the answer and the question text of the first such entry.
C9_ExactMatch ==
    LET q == preprocess(Str(query))
        same == {i \in 1..Len(kb.val) : preprocess(EntryQuestion(i)) = q}
        first == CHOOSE i \in same : \A j \in same : i <= j
    IN  (/\ constructed /\ IsQuery /\ Loaded
         /\ Geq(cutoff, <<0, 1>>) /\ Geq(<<1, 1>>, cutoff)
         /\ same # {})
          => /\ err = "none"
             /\ Eq(ret.score, <<1, 1>>)
             /\ ret.answer = EntryAnswer(first)
             /\ ret.matched_question = questions[first]

\* C10: on a knowledge base without entries, find_best and
\* get_answer_with_score return ("", "", 0.0) for every query and every cutoff,
\* and raise nothing.
C10_EmptyKnowledgeBase ==
    (constructed /\ IsQuery /\ kb.tag = "list" /\ Len(kb.val) = 0)
      => /\ err = "none"
         /\ ret.answer = EmptyStr
         /\ ret.matched_question = EmptyStr
         /\ Eq(ret.score, <<0, 1>>)

\* A query through get_answer_with_score on an empty knowledge base with the
\* cutoff 0, whose test 0.0 >= cutoff is true.
C10_Witness ==
    /\ constructed
    /\ op = "get_answer_with_score"
    /\ kb.tag = "list" /\ Len(kb.val) = 0
    /\ Eq(cutoff, <<0, 1>>)
    /\ ret.matched_question = EmptyStr

====
